---- MODULE Spec2Model ----
(***************************************************************************)
(* State-machine model of the energy backend: the in-memory bill store     *)
(* (app/storage.py), the analytics engine (app/services/calculations.py)   *)
(* and the HTTP handlers that drive them (flask_app.py).                   *)
(*                                                                         *)
(* Python floats are modelled as exact rationals <<n, d>> in lowest terms  *)
(* with d > 0; an Optional value is <<>> (None) or the value itself when   *)
(* the value is a rational, and <<v>> when it is a record.                 *)
(***************************************************************************)
EXTENDS Integers, Sequences, FiniteSets, TLC

VARIABLES
    bills,          \* storage._bills: the list of BillRead records
    next_id,        \* storage._id_counter.next_id
    issued_tokens,  \* create_app's issued_tokens set
    last,           \* the last request handled and its response
    req             \* concurrent create-bill handlers: position and locals

vars == <<bills, next_id, issued_tokens, last, req>>

None == <<>>

----------------------------------------------------------------------------
(* Float arithmetic, as exact rationals.                                   *)

Abs(i) == IF i < 0 THEN -i ELSE i

RECURSIVE GCD(_, _)
GCD(a, b) == IF b = 0 THEN a ELSE GCD(b, a % b)

Rat(n, d) ==
    LET g == GCD(Abs(n), Abs(d))
        s == IF d < 0 THEN -1 ELSE 1
    IN  <<(s * n) \div g, (s * d) \div g>>

F(i) == <<i, 1>>

RAdd(p, q) == Rat(p[1] * q[2] + q[1] * p[2], p[2] * q[2])
RSub(p, q) == Rat(p[1] * q[2] - q[1] * p[2], p[2] * q[2])
RMul(p, q) == Rat(p[1] * q[1], p[2] * q[2])
RDiv(p, q) == Rat(p[1] * q[2], p[2] * q[1])
RLt(p, q) == p[1] * q[2] < q[1] * p[2]
RLe(p, q) == p[1] * q[2] <= q[1] * p[2]
\* mutant of RMax: the clamp is lost, the second argument is returned as it is
RMax_unclamped(p, q) == q
RMax(p, q) == IF RLt(p, q) THEN q ELSE p

RECURSIVE RSum(_)
RSum(s) == IF s = <<>> THEN F(0) ELSE RAdd(RSum(SubSeq(s, 1, Len(s) - 1)), s[Len(s)])

\* range(k): the indices 1..k of a list comprehension over range(k); empty for k <= 0
Range(k) == 1 .. (IF k < 0 THEN 0 ELSE k)

----------------------------------------------------------------------------
(* list.sort / sorted with key (year, month): stable, also when reversed.  *)

KeyLt(p, q) == p.year < q.year \/ (p.year = q.year /\ p.month < q.month)

RECURSIVE InsertByKey(_, _, _)
InsertByKey(s, x, reverse) ==
    IF s = <<>> THEN <<x>>
    ELSE IF (IF reverse THEN KeyLt(Head(s), x) ELSE KeyLt(x, Head(s)))
         THEN <<x>> \o s
         ELSE <<Head(s)>> \o InsertByKey(Tail(s), x, reverse)

RECURSIVE SortByKey(_, _)
SortByKey(s, reverse) ==
    IF s = <<>> THEN <<>>
    ELSE InsertByKey(SortByKey(SubSeq(s, 1, Len(s) - 1), reverse), s[Len(s)], reverse)

----------------------------------------------------------------------------
(* app/schemas.py                                                          *)

DefaultEmissionFactor == Rat(7, 10)

\* BillCreate(**data): <<>> when validation raises, <<bill>> otherwise
BillCreate(data) ==
    LET ef == IF data.emission_factor_kg_per_kwh = None
              THEN DefaultEmissionFactor
              ELSE data.emission_factor_kg_per_kwh
    IN  IF /\ data.year >= 2000 /\ data.year <= 2100
           /\ data.month >= 1 /\ data.month <= 12
           /\ RLt(F(0), data.kilowatt_hours)
           /\ RLe(F(0), data.cost)
           /\ RLe(F(0), ef)
        THEN <<[year |-> data.year, month |-> data.month,
                kilowatt_hours |-> data.kilowatt_hours, cost |-> data.cost,
                emission_factor_kg_per_kwh |-> ef]>>
        ELSE <<>>

----------------------------------------------------------------------------
(* app/storage.py                                                          *)

BillRead(id, bill) ==
    [id |-> id, year |-> bill.year, month |-> bill.month,
     kilowatt_hours |-> bill.kilowatt_hours, cost |-> bill.cost,
     emission_factor_kg_per_kwh |-> bill.emission_factor_kg_per_kwh]

\* mutant of add_bill_list: the new bill is appended and the list is not sorted
add_bill_list_unsorted(bs, id, bill) == Append(bs, BillRead(id, bill))

\* InMemoryStorage.add_bill: allocate, append, sort (the save does not change the store)
add_bill_list(bs, id, bill) == SortByKey(Append(bs, BillRead(id, bill)), FALSE)

\* InMemoryStorage.list_bills: a copy of the list
list_bills(bs) == bs

\* mutant of find_bill: the month is compared with the year, so nothing matches
find_bill_month_as_year(bs, year, month) ==
    LET hits == {i \in 1..Len(bs) : bs[i].year = year /\ bs[i].month = year}
    IN  IF hits = {} THEN None
        ELSE <<bs[CHOOSE i \in hits : \A j \in hits : i <= j]>>

\* InMemoryStorage.find_bill: the first match, or None
find_bill(bs, year, month) ==
    LET hits == {i \in 1..Len(bs) : bs[i].year = year /\ bs[i].month = month}
    IN  IF hits = {} THEN None
        ELSE <<bs[CHOOSE i \in hits : \A j \in hits : i <= j]>>

\* InMemoryStorage.latest_bill
latest_bill(bs) == IF bs = <<>> THEN None ELSE <<bs[Len(bs)]>>

----------------------------------------------------------------------------
(* app/services/calculations.py                                            *)

_emissions_kg(kwh, factor) == RMul(kwh, factor)

UsagePoint(b) ==
    [year |-> b.year, month |-> b.month, kilowatt_hours |-> b.kilowatt_hours,
     cost |-> b.cost,
     emissions_kg |-> _emissions_kg(b.kilowatt_hours, b.emission_factor_kg_per_kwh)]

\* one UsagePoint per stored bill, in the store's order, in a fresh list
get_usage_points(bs) == [i \in 1..Len(list_bills(bs)) |-> UsagePoint(list_bills(bs)[i])]

\* pts[: max(0, limit)]
Prefix(s, k) == SubSeq(s, 1, IF k < Len(s) THEN k ELSE Len(s))

get_recent_usage(bs, limit) ==
    LET pts == SortByKey(get_usage_points(bs), TRUE)
    IN  Prefix(pts, IF limit < 0 THEN 0 ELSE limit)

Column(pts, f) == [i \in 1..Len(pts) |-> pts[i][f]]

build_summary(bs) ==
    LET pts == get_usage_points(bs)
        n == F(Len(pts))
        total_kwh == RSum(Column(pts, "kilowatt_hours"))
        total_cost == RSum(Column(pts, "cost"))
        total_emissions == RSum(Column(pts, "emissions_kg"))
    IN  IF pts = <<>>
        THEN [total_kwh |-> F(0), total_cost |-> F(0), total_emissions_kg |-> F(0),
              average_kwh |-> F(0), average_cost |-> F(0), average_emissions_kg |-> F(0)]
        ELSE [total_kwh |-> total_kwh, total_cost |-> total_cost,
              total_emissions_kg |-> total_emissions,
              average_kwh |-> RDiv(total_kwh, n), average_cost |-> RDiv(total_cost, n),
              average_emissions_kg |-> RDiv(total_emissions, n)]

current_month_report(bs) ==
    LET b == latest_bill(bs)
    IN  IF b = None THEN None ELSE <<UsagePoint(b[1])>>

\* mutant of analyze_trends: the window kwh_series[idx - 2 : idx] leaves the current point out
analyze_trends_short_window(bs) ==
    LET pts == SortByKey(get_usage_points(bs), FALSE)
        kwh_series == Column(pts, "kilowatt_hours")
        TrendPoint(idx) ==
            [year |-> pts[idx].year, month |-> pts[idx].month,
             kilowatt_hours |-> pts[idx].kilowatt_hours,
             month_over_month_delta_kwh |->
                 IF idx - 1 > 0
                 THEN RSub(pts[idx].kilowatt_hours, pts[idx - 1].kilowatt_hours)
                 ELSE None,
             moving_average_3mo_kwh |->
                 IF idx - 1 >= 2
                 THEN RDiv(RSum(SubSeq(kwh_series, idx - 2, idx - 1)), F(3))
                 ELSE None]
    IN  [points |-> [idx \in 1..Len(pts) |-> TrendPoint(idx)]]

analyze_trends(bs) ==
    LET pts == SortByKey(get_usage_points(bs), FALSE)
        kwh_series == Column(pts, "kilowatt_hours")
        TrendPoint(idx) ==   \* idx is the 1-based position: Python's idx + 1
            [year |-> pts[idx].year, month |-> pts[idx].month,
             kilowatt_hours |-> pts[idx].kilowatt_hours,
             month_over_month_delta_kwh |->
                 IF idx - 1 > 0
                 THEN RSub(pts[idx].kilowatt_hours, pts[idx - 1].kilowatt_hours)
                 ELSE None,
             moving_average_3mo_kwh |->
                 IF idx - 1 >= 2
                 THEN RDiv(RSum(SubSeq(kwh_series, idx - 2, idx)), F(3))
                 ELSE None]
    IN  [points |-> [idx \in 1..Len(pts) |-> TrendPoint(idx)]]

\* mutant of _linear_regression_predict: the future index starts at n, not n + 1
_linear_regression_predict_from_n(y_values, horizon) ==
    LET n == Len(y_values)
        x_vals == [i \in 1..n |-> F(i)]
        mean_x == RDiv(RSum(x_vals), F(n))
        mean_y == RDiv(RSum(y_values), F(n))
        ss_xy == RSum([i \in 1..n |->
                        RMul(RSub(x_vals[i], mean_x), RSub(y_values[i], mean_y))])
        ss_xx == RSum([i \in 1..n |->
                        RMul(RSub(x_vals[i], mean_x), RSub(x_vals[i], mean_x))])
        b == RDiv(ss_xy, ss_xx)
        a == RSub(mean_y, RMul(b, mean_x))
    IN  IF n = 0 THEN [h \in Range(horizon) |-> F(0)]
        ELSE IF ss_xx = F(0) THEN [h \in Range(horizon) |-> y_values[n]]
        ELSE [h \in Range(horizon) |-> RAdd(a, RMul(b, F(n + h - 1)))]

\* OLS for y = a + b*x with x = 1..n
_linear_regression_predict(y_values, horizon) ==
    LET n == Len(y_values)
        x_vals == [i \in 1..n |-> F(i)]
        mean_x == RDiv(RSum(x_vals), F(n))
        mean_y == RDiv(RSum(y_values), F(n))
        ss_xy == RSum([i \in 1..n |->
                        RMul(RSub(x_vals[i], mean_x), RSub(y_values[i], mean_y))])
        ss_xx == RSum([i \in 1..n |->
                        RMul(RSub(x_vals[i], mean_x), RSub(x_vals[i], mean_x))])
        b == RDiv(ss_xy, ss_xx)
        a == RSub(mean_y, RMul(b, mean_x))
    IN  IF n = 0 THEN [h \in Range(horizon) |-> F(0)]
        ELSE IF ss_xx = F(0) THEN [h \in Range(horizon) |-> y_values[n]]
        ELSE [h \in Range(horizon) |-> RAdd(a, RMul(b, F(n + h)))]

\* mutant of StepMonths: December rolls over to January of the same year
RECURSIVE StepMonths_same_year(_, _, _)
StepMonths_same_year(year, month, k) ==
    IF k = 0 THEN <<year, month>>
    ELSE IF month + 1 > 12 THEN StepMonths_same_year(year, 1, k - 1)
    ELSE StepMonths_same_year(year, month + 1, k - 1)

\* the period reached from (year, month) by k passes of the loop body at lines 145-148
RECURSIVE StepMonths(_, _, _)
StepMonths(year, month, k) ==
    IF k = 0 THEN <<year, month>>
    ELSE IF month + 1 > 12 THEN StepMonths(year + 1, 1, k - 1)
    ELSE StepMonths(year, month + 1, k - 1)

\* mutant of predict_usage: the empty store's seed is 2000-12, so the first point is 2001-01
predict_usage_seed_december(bs, horizon_months) ==
    LET pts == SortByKey(get_usage_points(bs), FALSE)
        y_values == Column(pts, "kilowatt_hours")
        preds == _linear_regression_predict(y_values, horizon_months)
        start_year == IF pts # <<>> THEN pts[Len(pts)].year ELSE 2000
        start_month == IF pts # <<>> THEN pts[Len(pts)].month ELSE 12
    IN  [horizon_months |-> horizon_months,
         predictions |->
            [k \in 1..Len(preds) |->
                [year |-> StepMonths(start_year, start_month, k)[1],
                 month |-> StepMonths(start_year, start_month, k)[2],
                 predicted_kwh |-> RMax(F(0), preds[k])]]]

predict_usage(bs, horizon_months) ==
    LET pts == SortByKey(get_usage_points(bs), FALSE)
        y_values == Column(pts, "kilowatt_hours")
        preds == _linear_regression_predict(y_values, horizon_months)
        start_year == IF pts # <<>> THEN pts[Len(pts)].year ELSE 2000
        start_month == IF pts # <<>> THEN pts[Len(pts)].month ELSE 1
    IN  [horizon_months |-> horizon_months,
         predictions |->
            [k \in 1..Len(preds) |->
                [year |-> StepMonths(start_year, start_month, k)[1],
                 month |-> StepMonths(start_year, start_month, k)[2],
                 predicted_kwh |-> RMax(F(0), preds[k])]]]

\* generate_advice's latest point: sorted(pts, key=...)[-1]
advice_latest(pts) == SortByKey(pts, FALSE)[Len(pts)]

HighCostTip(pts) ==
    LET latest == advice_latest(pts)
        cost_per_kwh == IF RLt(F(0), latest.kilowatt_hours)
                        THEN RDiv(latest.cost, latest.kilowatt_hours) ELSE F(0)
    IN  IF RLt(Rat(15, 100), cost_per_kwh) THEN <<"High cost per kWh">> ELSE <<>>

RisingTip(pts) ==
    LET sorted == SortByKey(pts, FALSE)
        last3 == SubSeq(sorted, Len(sorted) - 2, Len(sorted))
    IN  IF Len(pts) >= 3 /\ RLt(last3[1].kilowatt_hours, last3[3].kilowatt_hours)
        THEN <<"Rising energy usage">> ELSE <<>>

CarbonTip(pts) ==
    LET total_kwh == RSum(Column(pts, "kilowatt_hours"))
        total_emissions == RSum(Column(pts, "emissions_kg"))
        avg_emission_factor == IF RLt(F(0), total_kwh)
                               THEN RDiv(total_emissions, total_kwh) ELSE F(0)
    IN  IF RLe(Rat(6, 10), avg_emission_factor)
        THEN <<"Carbon intensity is high">> ELSE <<>>

\* mutant of generate_advice: the carbon rule is evaluated before the rising-usage rule
generate_advice_carbon_first(bs) ==
    LET pts == get_usage_points(bs)
    IN  IF pts = <<>> THEN [tips |-> <<"Add data">>]
        ELSE [tips |-> HighCostTip(pts) \o CarbonTip(pts) \o RisingTip(pts)
                       \o <<"Quick wins">>]

\* the tips are modelled by their titles; each title's detail text is fixed
generate_advice(bs) ==
    LET pts == get_usage_points(bs)
    IN  IF pts = <<>> THEN [tips |-> <<"Add data">>]
        ELSE [tips |-> HighCostTip(pts) \o RisingTip(pts) \o CarbonTip(pts)
                       \o <<"Quick wins">>]

----------------------------------------------------------------------------
(* Inputs.  Request bodies are drawn from small sets that hold valid and   *)
(* invalid values of every validated field.                                *)

Tokens == {"t1"}
GoodAuth == <<"Bearer", "t1">>
BadAuths == {<<>>, <<"Basic", "t1">>, <<"Bearer", "bad">>}
Credentials == {"", "user"}

\* four periods across a year end; 100 kWh at the default factor 0.7 or at 0.5,
\* 300 kWh at the default factor
ValidData ==
    {d \in [year : {2023, 2024}, month : {1, 12},
            kilowatt_hours : {F(100), F(300)}, cost : {F(20)},
            emission_factor_kg_per_kwh : {None, Rat(1, 2)}] :
        d.kilowatt_hours = F(100) \/ d.emission_factor_kg_per_kwh = None}

BaseData ==
    [year |-> 2023, month |-> 1, kilowatt_hours |-> F(100), cost |-> F(20),
     emission_factor_kg_per_kwh |-> None]

\* one request body per validation rule of BillBase that it breaks
InvalidData ==
    {[BaseData EXCEPT !.year = 1999], [BaseData EXCEPT !.year = 2101],
     [BaseData EXCEPT !.month = 0], [BaseData EXCEPT !.month = 13],
     [BaseData EXCEPT !.kilowatt_hours = F(0)], [BaseData EXCEPT !.cost = F(-1)],
     [BaseData EXCEPT !.emission_factor_kg_per_kwh = F(-1)]}

RequestsOver(valid) ==
    [auth : {GoodAuth}, data : valid \cup InvalidData]
        \cup [auth : BadAuths, data : {BaseData}]

Requests == RequestsOver(ValidData)

\* the forecast's inputs: six periods across a year end, three kWh values
MaxBills == 3
PredictPeriods ==
    {<<2023, 1>>, <<2023, 2>>, <<2023, 3>>, <<2023, 5>>, <<2023, 12>>, <<2024, 1>>}
PredictData ==
    {[BaseData EXCEPT !.year = p[1], !.month = p[2], !.kilowatt_hours = F(k)] :
        p \in PredictPeriods, k \in {100, 200, 300}}
PredictRequests == RequestsOver(PredictData)

Limits == {-1, 1, 6}
Horizons == {-1, 0, 1, 2, 3}

----------------------------------------------------------------------------
(* flask_app.py: one action per request handler, requests handled one at a *)
(* time.                                                                   *)

\* the request threads of the concurrent server and what each holds between steps
NumHandlers == 2
Handlers == 1..NumHandlers
Idle == [pc |-> "idle", bill |-> None, current |-> 0]

Response(op, arg, status, result) ==
    [op |-> op, arg |-> arg, status |-> status, result |-> result]

\* a first start: no data file to load, so the store is empty and next_id is 1
Init ==
    /\ bills = <<>>
    /\ next_id = 1
    /\ issued_tokens = {}
    /\ last = Response("start", 0, 0, None)
    /\ req = [t \in Handlers |-> Idle]

login(username, password, token) ==
    /\ IF username = "" \/ password = ""
       THEN /\ last' = Response("login", 0, 400, "username and password required")
            /\ UNCHANGED issued_tokens
       ELSE /\ issued_tokens' = issued_tokens \cup {token}
            /\ last' = Response("login", 0, 200, token)
    /\ UNCHANGED <<bills, next_id, req>>

Authorized(auth) == Len(auth) = 2 /\ auth[1] = "Bearer" /\ auth[2] \in issued_tokens

create_bill(auth, data) ==
    LET bill == BillCreate(data)
    IN  /\ IF ~Authorized(auth)
           THEN /\ last' = Response("create_bill", 0, 401, "Unauthorized")
                /\ UNCHANGED <<bills, next_id>>
           ELSE IF bill = <<>>
           THEN /\ last' = Response("create_bill", 0, 400, "validation error")
                /\ UNCHANGED <<bills, next_id>>
           ELSE IF find_bill(bills, bill[1].year, bill[1].month) # None
           THEN /\ last' = Response("create_bill", 0, 400,
                                    "Bill for this month already exists")
                /\ UNCHANGED <<bills, next_id>>
           ELSE /\ bills' = add_bill_list(bills, next_id, bill[1])
                /\ next_id' = next_id + 1
                /\ last' = Response("create_bill", 0, 200, BillRead(next_id, bill[1]))
        /\ UNCHANGED <<issued_tokens, req>>

\* mutant of Get: the handler's in-place sort reaches the store's own list
Get_sorts_store(op, arg, status, result) ==
    /\ last' = Response(op, arg, status, result)
    /\ bills' = SortByKey(bills, TRUE)
    /\ UNCHANGED <<next_id, issued_tokens, req>>

\* a GET handler: it responds and writes nothing
Get(op, arg, status, result) ==
    /\ last' = Response(op, arg, status, result)
    /\ UNCHANGED <<bills, next_id, issued_tokens, req>>

averages_body(bs) ==
    LET pts == SortByKey(get_usage_points(bs), FALSE)
        last6 == SubSeq(pts, IF Len(pts) > 6 THEN Len(pts) - 5 ELSE 1, Len(pts))
        n == Len(last6)
        Avg(f) == IF n # 0 THEN RDiv(RSum(Column(last6, f)), F(n)) ELSE F(0)
    IN  [last_month |->
            [kwh |-> IF pts # <<>> THEN pts[Len(pts)].kilowatt_hours ELSE F(0),
             emissions_kg |-> IF pts # <<>> THEN pts[Len(pts)].emissions_kg ELSE F(0)],
         six_month_avg |-> [kwh |-> Avg("kilowatt_hours"),
                            emissions_kg |-> Avg("emissions_kg")]]

Login == \E u \in Credentials, p \in Credentials, t \in Tokens : login(u, p, t)

CreateBill == \E r \in Requests : create_bill(r.auth, r.data)

ListBills == Get("list_bills", 0, 200, list_bills(bills))

RecentUsage == \E limit \in Limits : Get("recent_usage", limit, 200, get_recent_usage(bills, limit))

Summary == Get("summary", 0, 200, build_summary(bills))

CurrentMonth ==
    LET report == current_month_report(bills)
    IN  IF report = None
        THEN Get("current_month", 0, 404, None)
        ELSE Get("current_month", 0, 200, report)

Trends == Get("trends", 0, 200, analyze_trends(bills))

Predict == \E horizon \in Horizons : Get("predict", horizon, 200, predict_usage(bills, horizon))

Averages == Get("averages", 0, 200, averages_body(bills))

Advice == Get("advice", 0, 200, generate_advice(bills))

Next ==
    \/ Login
    \/ CreateBill
    \/ ListBills
    \/ RecentUsage
    \/ Summary
    \/ CurrentMonth
    \/ Trends
    \/ Predict
    \/ Averages
    \/ Advice

Spec == Init /\ [][Next]_vars

\* the store under create-bill requests alone
NextCreate ==
    \/ Login
    \/ CreateBill

SpecCreate == Init /\ [][NextCreate]_vars

\* the forecast handler over a store of at most MaxBills bills
CreateBillForPredict ==
    /\ Len(bills) < MaxBills
    /\ \E r \in PredictRequests : create_bill(r.auth, r.data)

NextPredict ==
    \/ Login
    \/ CreateBillForPredict
    \/ Predict

SpecPredict == Init /\ [][NextPredict]_vars

----------------------------------------------------------------------------
(* Create-bill requests handled concurrently, one thread per request: the  *)
(* duplicate check, the read of next_id, its increment, the append and the *)
(* sort are separate steps that other threads' steps may come between.     *)

ConcData ==
    {[BaseData EXCEPT !.month = m, !.kilowatt_hours = F(k)] : m \in {1, 2}, k \in {100, 300}}
ConcRequests == RequestsOver(ConcData)

Finish(t, status, result) ==
    /\ req' = [req EXCEPT ![t] = [pc |-> "done", bill |-> req[t].bill,
                                  current |-> req[t].current]]
    /\ last' = Response("create_bill", t, status, result)

\* lines 77-84: the auth check and the validation, on the request alone
Begin(t) ==
    /\ req[t].pc = "idle"
    /\ \E r \in ConcRequests :
          LET bill == BillCreate(r.data)
          IN  IF ~Authorized(r.auth) THEN Finish(t, 401, "Unauthorized")
              ELSE IF bill = <<>> THEN Finish(t, 400, "validation error")
              ELSE /\ req' = [req EXCEPT ![t] = [pc |-> "find", bill |-> bill[1],
                                                 current |-> 0]]
                   /\ UNCHANGED last
    /\ UNCHANGED <<bills, next_id, issued_tokens>>

\* line 85: storage.find_bill
Find(t) ==
    /\ req[t].pc = "find"
    /\ IF find_bill(bills, req[t].bill.year, req[t].bill.month) # None
       THEN Finish(t, 400, "Bill for this month already exists")
       ELSE /\ req' = [req EXCEPT ![t].pc = "allocate"]
            /\ UNCHANGED last
    /\ UNCHANGED <<bills, next_id, issued_tokens>>

\* _IdCounter.allocate, line 17: current = self.next_id
AllocateRead(t) ==
    /\ req[t].pc = "allocate"
    /\ req' = [req EXCEPT ![t].pc = "increment", ![t].current = next_id]
    /\ UNCHANGED <<bills, next_id, issued_tokens, last>>

\* _IdCounter.allocate, line 18: self.next_id += 1
AllocateIncrement(t) ==
    /\ req[t].pc = "increment"
    /\ next_id' = next_id + 1
    /\ req' = [req EXCEPT ![t].pc = "append"]
    /\ UNCHANGED <<bills, issued_tokens, last>>

\* add_bill, line 39: self._bills.append(new_bill)
AppendBill(t) ==
    /\ req[t].pc = "append"
    /\ bills' = Append(bills, BillRead(req[t].current, req[t].bill))
    /\ req' = [req EXCEPT ![t].pc = "sort"]
    /\ UNCHANGED <<next_id, issued_tokens, last>>

\* add_bill, lines 40-42, and the response; the sort is taken as one step
SortAndRespond(t) ==
    /\ req[t].pc = "sort"
    /\ bills' = SortByKey(bills, FALSE)
    /\ Finish(t, 200, BillRead(req[t].current, req[t].bill))
    /\ UNCHANGED <<next_id, issued_tokens>>

NextConc ==
    \/ Login
    \/ \E t \in Handlers : Begin(t)
    \/ \E t \in Handlers : Find(t)
    \/ \E t \in Handlers : AllocateRead(t)
    \/ \E t \in Handlers : AllocateIncrement(t)
    \/ \E t \in Handlers : AppendBill(t)
    \/ \E t \in Handlers : SortAndRespond(t)

SpecConc == Init /\ [][NextConc]_vars

----------------------------------------------------------------------------
(* Vocabulary of the properties, stated on the stored bills and on the     *)
(* responses, apart from the operators of the model.                       *)

\* a period as a count of months
Chron(p) == p.year * 12 + p.month

\* the period k calendar months after (year, month)
PeriodAfter(year, month, k) ==
    LET t == year * 12 + (month - 1) + k
    IN  <<t \div 12, (t % 12) + 1>>

Stored == {bills[i] : i \in 1..Len(bills)}

\* the stored bill at 1-based rank i of the ascending (year, month) order
Ranked(i) == CHOOSE b \in Stored : Cardinality({c \in Stored : Chron(c) <= Chron(b)}) = i

\* kWh as an integer: every stored kWh value of the input sets is integral
Kwh(b) == b.kilowatt_hours[1]

\* the bills were not added in chronological order
AddedOutOfOrder == \E i, j \in 1..Len(bills) : i < j /\ bills[i].id > bills[j].id

Predicted == last.op = "predict" /\ last.status = 200
Predictions == last.result.predictions

IntMax(a, b) == IF a < b THEN b ELSE a

----------------------------------------------------------------------------
\* C1 as stated: predict_usage with no stored bills and horizon_months = 3 returns
\* exactly 3 prediction points, all 0.0, the first of them the period (2001, 1).
C1_Original ==
    (Predicted /\ last.arg = 3 /\ bills = <<>>) =>
        /\ Len(Predictions) = 3
        /\ \A k \in 1..Len(Predictions) : Predictions[k].predicted_kwh = F(0)
        /\ Predictions[1].year = 2001 /\ Predictions[1].month = 1

\* C1 as amended: predict_usage with no stored bills and horizon_months = 3 returns
\* exactly 3 prediction points, all 0.0, for the periods 2000-02, 2000-03, 2000-04:
\* the first point is one month after the 2000-01 seed.
C1_EmptyForecast ==
    (Predicted /\ last.arg = 3 /\ bills = <<>>) =>
        /\ Len(Predictions) = 3
        /\ \A k \in 1..Len(Predictions) :
              /\ Predictions[k].predicted_kwh = F(0)
              /\ Predictions[k].year = 2000
              /\ Predictions[k].month = 1 + k

C1_Witness == Predicted /\ last.arg = 3 /\ bills = <<>> /\ Len(Predictions) = 3

\* C2: predict_usage returns exactly max(0, horizon_months) points; the k-th point is
\* the period k calendar months after the chronologically latest stored period (after
\* 2000-01 when nothing is stored), months stay in 1..12 and December rolls over to
\* January of the next year; horizon_months is returned unchanged.
C2_ForecastPeriods ==
    Predicted =>
        LET latest == IF bills = <<>> THEN [year |-> 2000, month |-> 1]
                      ELSE Ranked(Len(bills))
        IN  /\ last.result.horizon_months = last.arg
            /\ Len(Predictions) = IntMax(0, last.arg)
            /\ \A k \in 1..Len(Predictions) :
                  /\ <<Predictions[k].year, Predictions[k].month>>
                        = PeriodAfter(latest.year, latest.month, k)
                  /\ Predictions[k].month \in 1..12
            /\ (bills # <<>> /\ latest.year = 2023 /\ latest.month = 12 /\ last.arg = 1)
                  => (Predictions[1].year = 2024 /\ Predictions[1].month = 1)

C2_Witness ==
    /\ Predicted /\ last.arg = 2
    /\ Len(bills) >= 2 /\ AddedOutOfOrder
    /\ bills[Len(bills)].year = 2023 /\ bills[Len(bills)].month = 12
    /\ Predictions[1].year = 2024 /\ Predictions[1].month = 1
    /\ Predictions[2].year = 2024 /\ Predictions[2].month = 2

\* C3: every prediction point has predicted_kwh >= 0, and a fitted value below zero
\* is reported as 0.
C3_NonNegative ==
    Predicted =>
        LET fitted == _linear_regression_predict(
                          [i \in 1..Len(bills) |-> Ranked(i).kilowatt_hours], last.arg)
        IN  \A k \in 1..Len(Predictions) :
               /\ Predictions[k].predicted_kwh[1] >= 0
               /\ Predictions[k].predicted_kwh[2] > 0
               /\ fitted[k][1] < 0 => Predictions[k].predicted_kwh = F(0)

C3_Witness ==
    /\ Predicted /\ last.arg = 3 /\ Len(bills) = 3
    /\ Kwh(bills[1]) > Kwh(bills[2]) /\ Kwh(bills[2]) > Kwh(bills[3])
    /\ Predictions[2].predicted_kwh = F(0)
    /\ _linear_regression_predict(
           [i \in 1..3 |-> bills[i].kilowatt_hours], 3)[2][1] < 0

\* C4: when the kWh values in ascending (year, month) order form an arithmetic
\* progression with common difference d (d = 0 for a single bill), the forecast for
\* step h is max(0, last_kwh + h*d); bills (2023,1,100), (2023,2,200), (2023,3,300)
\* with horizon 1 give 400 for 2023-04, and a single bill (2023,5,100) with horizon 2
\* gives 100, 100 for 2023-06 and 2023-07.
C4_ArithmeticProgression ==
    Predicted =>
        LET n == Len(bills)
            y == [i \in 1..n |-> Kwh(Ranked(i))]
            d == IF n >= 2 THEN y[2] - y[1] ELSE 0
            Period(i) == <<Ranked(i).year, Ranked(i).month>>
            Point(k) == <<Predictions[k].year, Predictions[k].month,
                          Predictions[k].predicted_kwh>>
        IN  /\ (n >= 1 /\ \A i \in 1..(n - 1) : y[i + 1] - y[i] = d) =>
                  \A h \in 1..Len(Predictions) :
                     Predictions[h].predicted_kwh = F(IntMax(0, y[n] + h * d))
            /\ (/\ n = 3 /\ last.arg = 1
                /\ Period(1) = <<2023, 1>> /\ Period(2) = <<2023, 2>>
                /\ Period(3) = <<2023, 3>>
                /\ y = <<100, 200, 300>>)
                  => Point(1) = <<2023, 4, F(400)>>
            /\ (n = 1 /\ last.arg = 2 /\ Period(1) = <<2023, 5>> /\ y = <<100>>)
                  => (Point(1) = <<2023, 6, F(100)>> /\ Point(2) = <<2023, 7, F(100)>>)

C4_Witness ==
    /\ Predicted /\ last.arg = 1 /\ Len(bills) = 3 /\ AddedOutOfOrder
    /\ \A i \in 1..3 : bills[i].year = 2023 /\ bills[i].month = i /\ Kwh(bills[i]) = 100 * i
    /\ Predictions[1].predicted_kwh = F(400)

----------------------------------------------------------------------------
\* C5: analyze_trends returns one trend point per bill, ascending by (year, month);
\* point 0 has no delta, points 0 and 1 have no moving average, every later point's
\* delta is kwh[i] - kwh[i-1] and, from index 2 on, its moving average is
\* (kwh[i-2] + kwh[i-1] + kwh[i]) / 3 over the whole sorted history.
C5_TrendPoints ==
    (last.op = "trends") =>
        LET pts == last.result.points
            n == Len(bills)
        IN  /\ Len(pts) = n
            /\ \A i \in 1..n :
                  /\ pts[i].year = Ranked(i).year /\ pts[i].month = Ranked(i).month
                  /\ pts[i].kilowatt_hours = Ranked(i).kilowatt_hours
            /\ \A i \in 1..(n - 1) : Chron(pts[i]) <= Chron(pts[i + 1])
            /\ \A i \in 1..n :
                  /\ (i = 1) => pts[i].month_over_month_delta_kwh = None
                  /\ (i <= 2) => pts[i].moving_average_3mo_kwh = None
                  /\ (i >= 2) => pts[i].month_over_month_delta_kwh
                                    = F(Kwh(pts[i]) - Kwh(pts[i - 1]))
                  /\ (i >= 3) =>
                        LET m == pts[i].moving_average_3mo_kwh
                        IN  /\ m # None /\ m[2] > 0
                            /\ 3 * m[1] = (Kwh(pts[i - 2]) + Kwh(pts[i - 1]) + Kwh(pts[i])) * m[2]

C5_Witness ==
    /\ last.op = "trends" /\ Len(bills) = 4 /\ AddedOutOfOrder
    /\ last.result.points[4].moving_average_3mo_kwh # None
    /\ last.result.points[4].moving_average_3mo_kwh
          # last.result.points[3].moving_average_3mo_kwh
    /\ last.result.points[2].month_over_month_delta_kwh = F(-200)

AdviceOrder ==
    <<"High cost per kWh", "Rising energy usage", "Carbon intensity is high", "Quick wins">>
AdvicePos(title) ==
    IF \E i \in 1..Len(AdviceOrder) : AdviceOrder[i] = title
    THEN CHOOSE i \in 1..Len(AdviceOrder) : AdviceOrder[i] = title
    ELSE 0
HasTip(tips, title) == \E i \in 1..Len(tips) : tips[i] = title

\* C6: generate_advice returns exactly <<"Add data">> when no bill is stored; otherwise
\* never "Add data", the tips are a subsequence of the fixed order (each at most once),
\* the last tip is "Quick wins", "Rising energy usage" needs at least 3 bills, and one
\* bill with cost 20, 100 kWh and an emission factor >= 0.6 gives exactly the tips
\* high-cost, carbon-intensity, quick-wins.
C6_Advice ==
    (last.op = "advice") =>
        LET tips == last.result.tips
        IN  /\ (bills = <<>>) => tips = <<"Add data">>
            /\ (bills # <<>>) =>
                  /\ ~HasTip(tips, "Add data")
                  /\ \A i \in 1..Len(tips) : AdvicePos(tips[i]) > 0
                  /\ \A i \in 1..(Len(tips) - 1) : AdvicePos(tips[i]) < AdvicePos(tips[i + 1])
                  /\ Len(tips) >= 1 /\ tips[Len(tips)] = "Quick wins"
                  /\ (Len(bills) < 3) => ~HasTip(tips, "Rising energy usage")
            /\ (/\ Len(bills) = 1 /\ bills[1].cost = F(20) /\ bills[1].kilowatt_hours = F(100)
                /\ 10 * bills[1].emission_factor_kg_per_kwh[1]
                      >= 6 * bills[1].emission_factor_kg_per_kwh[2])
                  => tips = <<"High cost per kWh", "Carbon intensity is high", "Quick wins">>

C6_Witness ==
    /\ last.op = "advice" /\ Len(bills) = 1
    /\ bills[1].cost = F(20) /\ bills[1].kilowatt_hours = F(100)
    /\ last.result.tips = <<"High cost per kWh", "Carbon intensity is high", "Quick wins">>

UniquePeriods ==
    \A i, j \in 1..Len(bills) :
        (i # j) => ~(bills[i].year = bills[j].year /\ bills[i].month = bills[j].month)

PeriodStored(data) == \E b \in Stored : b.year = data.year /\ b.month = data.month

\* C7 as stated: after any sequence of create-bill requests handled one at a time no
\* two stored bills share a (year, month), and a create-bill request whose
\* (year, month) is already stored is rejected with status 400 and leaves the bill
\* list and the id counter unchanged.
C7_Original ==
    [][/\ UniquePeriods'
       /\ \A r \in Requests :
             (create_bill(r.auth, r.data) /\ PeriodStored(r.data)) =>
                 (last'.status = 400 /\ bills' = bills /\ next_id' = next_id)]_vars

\* C7 as amended: no two stored bills share a (year, month); a create-bill request
\* whose (year, month) is already stored leaves the bill list and the id counter
\* unchanged, and is rejected with status 400 when it carries an issued bearer token
\* and with status 401 when it does not.
C7_UniquePeriods ==
    [][/\ UniquePeriods'
       /\ \A r \in Requests :
             (create_bill(r.auth, r.data) /\ PeriodStored(r.data)) =>
                 /\ last'.status = (IF Authorized(r.auth) THEN 400 ELSE 401)
                 /\ bills' = bills /\ next_id' = next_id]_vars

C7_Witness ==
    /\ last.op = "create_bill" /\ last.status = 400
    /\ last.result = "Bill for this month already exists"
    /\ Len(bills) >= 2

\* C8: the stored list is sorted ascending by (year, month) whatever the order of the
\* add_bill calls; current_month_report is none exactly when nothing is stored and
\* otherwise reports the bill of the greatest (year, month), the same one that
\* generate_advice and predict_usage treat as the latest.
C8_LatestBill ==
    /\ \A i \in 1..(Len(bills) - 1) : Chron(bills[i]) <= Chron(bills[i + 1])
    /\ (last.op = "current_month") =>
          /\ (last.result = None) <=> (bills = <<>>)
          /\ (last.status = 404) <=> (bills = <<>>)
          /\ (bills # <<>>) =>
                LET top == CHOOSE b \in Stored : \A c \in Stored : Chron(c) <= Chron(b)
                    report == last.result[1]
                    next == predict_usage(bills, 1).predictions[1]
                IN  /\ report = [year |-> top.year, month |-> top.month,
                                 kilowatt_hours |-> top.kilowatt_hours, cost |-> top.cost,
                                 emissions_kg |-> RMul(top.kilowatt_hours,
                                                       top.emission_factor_kg_per_kwh)]
                    /\ advice_latest(get_usage_points(bills)) = report
                    /\ <<next.year, next.month>> = PeriodAfter(report.year, report.month, 1)

C8_Witness ==
    /\ last.op = "current_month" /\ last.status = 200
    /\ Len(bills) >= 3 /\ AddedOutOfOrder
    /\ bills[Len(bills)].id # next_id - 1
    /\ last.result[1].year = 2024 /\ last.result[1].month = 12

EngineOps ==
    {"recent_usage", "summary", "current_month", "trends", "predict", "averages", "advice"}

C10_ConcurrentUnique ==
    \A i, j \in 1..Len(bills) :
        (i # j) => /\ ~(bills[i].year = bills[j].year /\ bills[i].month = bills[j].month)
                   /\ bills[i].id # bills[j].id

====
